---- MODULE Spec2Model ----
(***************************************************************************)
(* The three analysis scripts of spop-pdx1:                                *)
(*   fa_direct_analyzer.py       direct binding fit       (kdfit)          *)
(*   fa_competition_analyzer.py  competitive binding fit  (kd2fit)         *)
(*   cell_plotter.py             t-test annotation of two cell populations *)
(*                                                                         *)
(* Numbers.  Concentrations, dissociation constants, signals and scale     *)
(* factors are integers in one unit each.  Real arithmetic is modelled     *)
(* exactly: a rational is a record [n, d] in lowest terms with d > 0, and  *)
(* d = 0 marks a non-finite value (NaN or +-inf).  The two irrational      *)
(* quantities of the code, the square root of kdfit and the trigonometric  *)
(* root of kd2fit, are never approximated: every comparison of them with a *)
(* rational is decided exactly, in integers.  Where the exact argument of  *)
(* arccos sits on the edge of its domain, the floating-point quotient of   *)
(* the code lands on either side of the edge, and the model takes both.    *)
(***************************************************************************)
EXTENDS Integers, Sequences, FiniteSets, TLC

\* ------------------------------------------------------------------ bounds
\* concentrations range over 0..MaxConc
MaxConc == 3
\* dissociation constants range over -MaxKd..MaxKd
MaxKd == 3
\* scale factors range over 1..MaxG
MaxG == 2
\* quantum yields range over 1..MaxQ
MaxQ == 3
\* observed signals range over 1..MaxSig
MaxSig == 2
\* a bound fraction is reported in steps of 1/FBRes
FBRes == 8
\* the optimizer's cap on model evaluations (maxfev)
MaxEvals == 2

\* ------------------------------------------------------- exact arithmetic
Abs(x) == IF x < 0 THEN -x ELSE x

RECURSIVE GCD(_, _)
GCD(a, b) == IF b = 0 THEN a ELSE GCD(b, a % b)

\* NaN or +-inf: what numpy yields for x/0, sqrt(x < 0), arccos(|x| > 1)
NonFinite == [n |-> 0, d |-> 0]

IsFinite(r) == r.d # 0

Rat(n, d) ==
    IF d = 0 THEN NonFinite
    ELSE LET s == IF d < 0 THEN -1 ELSE 1
             g == GCD(Abs(n), Abs(d))
         IN  [n |-> (s * n) \div g, d |-> (s * d) \div g]

Whole(k) == [n |-> k, d |-> 1]

RatAdd(a, b) ==
    IF IsFinite(a) /\ IsFinite(b) THEN Rat(a.n * b.d + b.n * a.d, a.d * b.d)
    ELSE NonFinite

RatSub(a, b) ==
    IF IsFinite(a) /\ IsFinite(b) THEN Rat(a.n * b.d - b.n * a.d, a.d * b.d)
    ELSE NonFinite

RatMul(a, b) ==
    IF IsFinite(a) /\ IsFinite(b) THEN Rat(a.n * b.n, a.d * b.d)
    ELSE NonFinite

\* numpy division: a zero divisor gives inf or nan, never an exception
RatDiv(a, b) ==
    IF IsFinite(a) /\ IsFinite(b) /\ b.n # 0 THEN Rat(a.n * b.d, a.d * b.n)
    ELSE NonFinite

\* ------------------------------------------------------------------ state
VARIABLES
    script,     \* which script runs: "direct", "competition", "cell"; "none"
                \* where only the model functions are applied
    pc,         \* the statement the script has reached
    data,       \* np.loadtxt(...): a sequence of <<concentration, signal>> rows
    pep,        \* data[:,0]
    Aobs,       \* data[:,1] (named I in the direct script): the ydata of the fit
    Af, Ab,     \* np.min(data[:,1]), np.max(data[:,1])
    SPOP, Puc, Kd1, Q,   \* the experimental constants of the script
    evals,      \* model evaluations the optimizer has made
    out,        \* the model function's last call: one evaluation per element
    p1, pcov,   \* the fit result: p1 = <<Kd, G>>
    fit1, Kdround, note, \* the reporter's values
    err,        \* the exception that ended the script, or None
    p2, label   \* cell_plotter: the p-value and the annotated text

vars == <<script, pc, data, pep, Aobs, Af, Ab, SPOP, Puc, Kd1, Q, evals, out,
          p1, pcov, fit1, Kdround, note, err, p2, label>>

\* A name the script has not assigned yet holds None (an array, a result) or
\* Unassigned (a number); an assigned result x is held as Some(x).
None == << >>
Some(x) == <<x>>
Unassigned == 0 - 1

\* ---------------------------------------------------- a real number, seen
\* through its exact comparisons Ge(a, b): x >= a/b and Le(a, b): x <= a/b
\* (b > 0).  fl is floor(x * FBRes), kept within -FBRes..2*FBRes.
NonFiniteFB == [fin |-> FALSE, ge0 |-> FALSE, le1 |-> FALSE, fl |-> 0]

Describe(Ge(_, _), Le(_, _)) ==
    [fin |-> TRUE,
     ge0 |-> Ge(0, 1),
     le1 |-> Le(1, 1),
     fl  |-> IF ~Ge(-FBRes, FBRes) THEN -FBRes
             ELSE IF Ge(2 * FBRes, FBRes) THEN 2 * FBRes
             ELSE CHOOSE k \in (-FBRes)..(2 * FBRes) :
                      Ge(k, FBRes) /\ ~Ge(k + 1, FBRes)]

\* the value of a described bound fraction that the signal is computed from
Value(FB) == IF FB.fin THEN Rat(FB.fl, FBRes) ELSE NonFinite

\* (S + sgn*sqrt(D)) / den compared with a/b, for D >= 0, den > 0, b > 0
SurdGe(S, sgn, D, den, a, b) ==
    LET c0 == a * den - S * b
    IN  IF sgn = 1 THEN c0 <= 0 \/ D * b * b >= c0 * c0
        ELSE c0 <= 0 /\ D * b * b <= c0 * c0

SurdLe(S, sgn, D, den, a, b) ==
    LET c0 == a * den - S * b
    IN  IF sgn = 1 THEN c0 >= 0 /\ D * b * b <= c0 * c0
        ELSE c0 >= 0 \/ D * b * b >= c0 * c0

\* ----------------------------------------- fa_direct_analyzer.py: kdfit
\* kdfitFB with the other root of the quadratic, (S + sqrt(D)) / den
kdfitFB_otherRoot(c, Kd) ==
    LET S   == Kd + c + Puc
        D   == (S * S) - 4 * c * Puc
        den == 2 * Puc
        Ge(a, b) == SurdGe(S, 1, D, den, a, b)
        Le(a, b) == SurdLe(S, 1, D, den, a, b)
    IN  IF D < 0 \/ den = 0 THEN NonFiniteFB ELSE Describe(Ge, Le)

\* line 59: FB = ((Kd + pep + Puc) - sqrt((Kd + pep + Puc)**2 - 4*pep*Puc))
\*               / (2 * Puc)
kdfitFB(c, Kd) ==
    LET S   == Kd + c + Puc
        D   == (S * S) - 4 * c * Puc
        den == 2 * Puc
        Ge(a, b) == SurdGe(S, -1, D, den, a, b)
        Le(a, b) == SurdLe(S, -1, D, den, a, b)
    IN  IF D < 0 \/ den = 0 THEN NonFiniteFB ELSE Describe(Ge, Le)

\* line 61: Aobs = (Q*FB*Ab) + ((Af*(1 - FB)) / (1 - (FB*(1 - Q))))
kdfitAobs(FB) ==
    RatAdd(RatMul(RatMul(Whole(Q), FB), Whole(Ab)),
           RatDiv(RatMul(Whole(Af), RatSub(Whole(1), FB)),
                  RatSub(Whole(1), RatMul(FB, RatSub(Whole(1), Whole(Q))))))

\* lines 57-63: def kdfit(pep, Kd, G): ... return G * Aobs
kdfit(c, Kd, G) ==
    LET FB == kdfitFB(c, Kd)
    IN  [fn |-> "kdfit", c |-> c, Kd |-> Kd, G |-> G, FB |-> FB,
         th |-> "none",
         val |-> RatMul(Whole(G), kdfitAobs(Value(FB)))]

\* ------------------------------------ fa_competition_analyzer.py: kd2fit
\* line 63
d(c, Kd2) == Kd1 + Kd2 + Puc + c - SPOP
\* line 64
e(c, Kd2) == ((c - SPOP) * Kd1) + ((Puc - SPOP) * Kd2) + (Kd1 * Kd2)
\* line 65
f(Kd2) == -1 * Kd1 * Kd2 * SPOP

\* line 67: theta_top = (-2 * d**3) + (9 * d * e) - (27 * f)
theta_top(c, Kd2) ==
    LET dv == d(c, Kd2)
    IN  (-2 * dv * dv * dv) + (9 * dv * e(c, Kd2)) - (27 * f(Kd2))

\* lines 68, 71, 72: the radicand (d**2) - 3*e
radicand(c, Kd2) == (d(c, Kd2) * d(c, Kd2)) - 3 * e(c, Kd2)

\* line 68: theta_bottom = 2 * sqrt(radicand**3), kept as its square
theta_bottom_sq(c, Kd2) ==
    LET qv == radicand(c, Kd2) IN 4 * qv * qv * qv

\* line 69: th = arccos(theta_top / theta_bottom).  "nan": the square root or
\* the quotient is already non-finite; "out": the argument is outside [-1, 1];
\* "edge": the exact argument is 1 or -1; "in": it is strictly inside.
th(c, Kd2) ==
    LET T == theta_top(c, Kd2)
    IN  IF radicand(c, Kd2) <= 0 THEN "nan"
        ELSE IF T * T > theta_bottom_sq(c, Kd2) THEN "out"
        ELSE IF T * T = theta_bottom_sq(c, Kd2) THEN "edge"
        ELSE "in"

\* The floating-point quotient of an exact argument 1 or -1: within the domain
\* of arccos, or one rounding error outside it.
Rounding == {"within", "outside"}

\* np.arccos on the rounded argument: a value ("in"), or nan with a warning
thRounded(c, Kd2, r) ==
    IF th(c, Kd2) = "edge"
    THEN (IF r = "outside" THEN "out" ELSE "in")
    ELSE th(c, Kd2)

\* u = 2 * sqrt(radicand) * cos(th / 3) (lines 71, 72) is the largest real root
\* of u^3 - 3*radicand*u - theta_top, and it lies in [sqrt(radicand),
\* 2*sqrt(radicand)], where that cubic increases.  u >= a/b and u <= a/b:
cubic(qv, T, a, b) == (a * a * a) - (3 * qv * a * b * b) - (T * b * b * b)

UGe(qv, T, a, b) == a <= 0 \/ a * a <= qv * b * b \/ cubic(qv, T, a, b) <= 0

ULe(qv, T, a, b) == a >= 0 /\ a * a >= qv * b * b /\ cubic(qv, T, a, b) >= 0

\* u * m >= c0 and u * m <= c0, for integers m and c0
LinGe(qv, T, m, c0) ==
    IF m > 0 THEN UGe(qv, T, c0, m)
    ELSE IF m = 0 THEN 0 >= c0
    ELSE ULe(qv, T, -c0, -m)

LinLe(qv, T, m, c0) ==
    IF m > 0 THEN ULe(qv, T, c0, m)
    ELSE IF m = 0 THEN 0 <= c0
    ELSE UGe(qv, T, -c0, -m)

\* line 71: top = (2 * sqrt(radicand) * cos(th / 3)) - d, as its sign
topSign(c, Kd2) ==
    LET qv == radicand(c, Kd2)
        T  == theta_top(c, Kd2)
    IN  IF ~UGe(qv, T, d(c, Kd2), 1) THEN -1
        ELSE IF ULe(qv, T, d(c, Kd2), 1) THEN 0 ELSE 1

\* line 72: bottom = (3 * Kd1) + (2 * sqrt(radicand) * cos(th / 3)) - d
bottomSign(c, Kd2) ==
    LET qv == radicand(c, Kd2)
        T  == theta_top(c, Kd2)
        dd == d(c, Kd2) - 3 * Kd1
    IN  IF ~UGe(qv, T, dd, 1) THEN -1
        ELSE IF ULe(qv, T, dd, 1) THEN 0 ELSE 1

\* lines 67-74: FB = top / bottom; r is the rounding of the arccos argument
kd2fitFB(c, Kd2, r) ==
    LET qv == radicand(c, Kd2)
        T  == theta_top(c, Kd2)
        dv == d(c, Kd2)
        dd == d(c, Kd2) - 3 * Kd1
        bs == bottomSign(c, Kd2)
        \* top * b >= a * bottom  <=>  u * (b - a) >= dv * b - a * dd
        Ge(a, b) == IF bs > 0 THEN LinGe(qv, T, b - a, dv * b - a * dd)
                    ELSE LinLe(qv, T, b - a, dv * b - a * dd)
        Le(a, b) == IF bs > 0 THEN LinLe(qv, T, b - a, dv * b - a * dd)
                    ELSE LinGe(qv, T, b - a, dv * b - a * dd)
    IN  IF thRounded(c, Kd2, r) # "in" THEN NonFiniteFB
        ELSE IF bs = 0 THEN NonFiniteFB
        ELSE Describe(Ge, Le)

\* line 76: Aobs = ((Q*FB*Ab) + (Af*(1 - FB))) / (1 - (FB*(1 - Q)))
kd2fitAobs(FB) ==
    RatDiv(RatAdd(RatMul(RatMul(Whole(Q), FB), Whole(Ab)),
                  RatMul(Whole(Af), RatSub(Whole(1), FB))),
           RatSub(Whole(1), RatMul(FB, RatSub(Whole(1), Whole(Q)))))

\* lines 62-78: def kd2fit(pep, Kd2, G): ... return G * Aobs
kd2fit(c, Kd2, G, r) ==
    LET FB == kd2fitFB(c, Kd2, r)
    IN  [fn |-> "kd2fit", c |-> c, Kd |-> Kd2, G |-> G, FB |-> FB,
         th |-> thRounded(c, Kd2, r),
         val |-> RatMul(Whole(G), kd2fitAobs(Value(FB)))]

\* ------------------------------------------- the model functions, applied
\* The functions of the two fit scripts applied once to inputs drawn from
\* the bounded sets: the experimental constants and bounding signals in
\* InitFn, the arguments in the actions.
Concs == 0..MaxConc
Kds == (-MaxKd)..MaxKd
Gs == 1..MaxG
Sigs == 1..MaxSig

InitFn ==
    /\ script = "none"
    /\ pc = "fn"
    /\ data = None /\ pep = None /\ Aobs = None
    /\ Af \in Sigs /\ Ab \in Sigs /\ Af <= Ab
    /\ SPOP \in 1..MaxConc
    /\ Puc \in 0..MaxConc
    /\ Kd1 \in 1..MaxKd
    /\ Q \in 1..MaxQ
    /\ evals = 0
    /\ out = None
    /\ p1 = None /\ pcov = None
    /\ fit1 = None /\ Kdround = None /\ note = None
    /\ err = None
    /\ p2 = None /\ label = None

ApplyKdfit ==
    /\ pc = "fn"
    /\ \E c \in Concs, Kd \in Kds, G \in Gs : out' = <<kdfit(c, Kd, G)>>
    /\ pc' = "applied"
    /\ UNCHANGED <<script, data, pep, Aobs, Af, Ab, SPOP, Puc, Kd1, Q, evals,
                   p1, pcov, fit1, Kdround, note, err, p2, label>>

ApplyKd2fit ==
    /\ pc = "fn"
    /\ \E c \in Concs, Kd2 \in Kds, G \in Gs, r \in Rounding :
           out' = <<kd2fit(c, Kd2, G, r)>>
    /\ pc' = "applied"
    /\ UNCHANGED <<script, data, pep, Aobs, Af, Ab, SPOP, Puc, Kd1, Q, evals,
                   p1, pcov, fit1, Kdround, note, err, p2, label>>

\* the signal expressions of lines 61-63 and 76-78 at the bound fraction
\* k/FBRes
AtFraction(k) == [fin |-> TRUE, ge0 |-> k >= 0, le1 |-> k <= FBRes, fl |-> k]

ApplyKdfitAobs ==
    /\ pc = "fn"
    /\ \E k \in 0..FBRes, G \in Gs :
           out' = <<[fn |-> "kdfitAobs", c |-> 0, Kd |-> 0, G |-> G,
                     FB |-> AtFraction(k), th |-> "none",
                     val |-> RatMul(Whole(G), kdfitAobs(Rat(k, FBRes)))]>>
    /\ pc' = "applied"
    /\ UNCHANGED <<script, data, pep, Aobs, Af, Ab, SPOP, Puc, Kd1, Q, evals,
                   p1, pcov, fit1, Kdround, note, err, p2, label>>

ApplyKd2fitAobs ==
    /\ pc = "fn"
    /\ \E k \in 0..FBRes, G \in Gs :
           out' = <<[fn |-> "kd2fitAobs", c |-> 0, Kd |-> 0, G |-> G,
                     FB |-> AtFraction(k), th |-> "none",
                     val |-> RatMul(Whole(G), kd2fitAobs(Rat(k, FBRes)))]>>
    /\ pc' = "applied"
    /\ UNCHANGED <<script, data, pep, Aobs, Af, Ab, SPOP, Puc, Kd1, Q, evals,
                   p1, pcov, fit1, Kdround, note, err, p2, label>>

NextFn == ApplyKdfit \/ ApplyKd2fit \/ ApplyKdfitAobs \/ ApplyKd2fitAobs

SpecFn == InitFn /\ [][NextFn]_vars

\* ------------------------------------------------------- the fit scripts
Range(s) == {s[i] : i \in DOMAIN s}
SeqMin(s) == CHOOSE x \in Range(s) : \A y \in Range(s) : x <= y
SeqMax(s) == CHOOSE x \in Range(s) : \A y \in Range(s) : x >= y

\* np.loadtxt: the two-column tables a data file can hold, here two rows
\* measured at the ends of the concentration range
Rows == {0, MaxConc} \X Sigs
Tables == {<<r1, r2>> : r1 \in Rows, r2 \in Rows}

Column(t, j) == [i \in DOMAIN t |-> t[i][j]]

\* the user inputs of the scripts (docstrings, "User inputs"), in model units
SPOPInputs == {1, MaxConc}
PucInputs == {0, 1}
Kd1Inputs == {1}

\* fa_direct_analyzer.py line 50, fa_competition_analyzer.py line 55
QDirect == 1
QCompetition == 3

\* guess1: fa_direct_analyzer.py line 66, fa_competition_analyzer.py line 82
guess1 == IF script = "direct" THEN <<1, 8>> ELSE <<8, 1>>

FitScripts == {"direct", "competition"}

Init ==
    /\ script \in FitScripts \cup {"cell"}
    /\ pc = "start"
    /\ data = None /\ pep = None /\ Aobs = None
    /\ Af = Unassigned /\ Ab = Unassigned
    /\ SPOP = Unassigned /\ Puc = Unassigned /\ Kd1 = Unassigned
    /\ Q = Unassigned
    /\ evals = 0
    /\ out = None
    /\ p1 = None /\ pcov = None
    /\ fit1 = None /\ Kdround = None /\ note = None
    /\ err = None
    /\ p2 = None /\ label = None

\* direct 37-41, competition 38-42: data = np.loadtxt(...); pep = data[:,0];
\* I (Aobs) = data[:,1]
LoadData ==
    /\ script \in FitScripts /\ pc = "start"
    /\ \E t \in Tables :
           /\ data' = t
           /\ pep' = Column(t, 1)
           /\ Aobs' = Column(t, 2)
    /\ pc' = "loaded"
    /\ UNCHANGED <<script, Af, Ab, SPOP, Puc, Kd1, Q, evals, out, p1, pcov,
                   fit1, Kdround, note, err, p2, label>>

\* direct 44-45, competition 45-46: Af = np.min(data[:,1]);
\* Ab = np.max(data[:,1])
BoundingSignals ==
    /\ script \in FitScripts /\ pc = "loaded"
    /\ Af' = SeqMin(Column(data, 2))
    /\ Ab' = SeqMax(Column(data, 2))
    /\ pc' = "bounded"
    /\ UNCHANGED <<script, data, pep, Aobs, SPOP, Puc, Kd1, Q, evals, out, p1,
                   pcov, fit1, Kdround, note, err, p2, label>>

\* direct 48-50: Puc, Q; competition 49-55: SPOP, Puc, Kd1, Q
Constants ==
    /\ script \in FitScripts /\ pc = "bounded"
    /\ Puc' \in PucInputs
    /\ IF script = "direct"
       THEN SPOP' = Unassigned /\ Kd1' = Unassigned /\ Q' = QDirect
       ELSE SPOP' \in SPOPInputs /\ Kd1' \in Kd1Inputs /\ Q' = QCompetition
    /\ pc' = "configured"
    /\ UNCHANGED <<script, data, pep, Aobs, Af, Ab, evals, out, p1, pcov,
                   fit1, Kdround, note, err, p2, label>>

\* the model function of the script on the whole concentration array
model(xs, Kd, G, r) ==
    [i \in DOMAIN xs |->
        IF script = "direct" THEN kdfit(xs[i], Kd, G)
        ELSE kd2fit(xs[i], Kd, G, r)]

\* direct 69, competition 85: optimize.curve_fit(kdfit, pep, I, guess1) is
\* entered; no statement before it inspects the constants
StartFit ==
    /\ script \in FitScripts /\ pc = "configured"
    /\ pc' = "fitting"
    /\ UNCHANGED <<script, data, pep, Aobs, Af, Ab, SPOP, Puc, Kd1, Q, evals,
                   out, p1, pcov, fit1, Kdround, note, err, p2, label>>

\* FitEval with the bounding signals derived again from each evaluation
FitEval_rederive ==
    /\ script \in FitScripts /\ pc = "fitting" /\ evals < MaxEvals
    /\ \E Kd \in Kds, G \in Gs, r \in Rounding :
           out' = IF evals = 0 THEN model(pep, guess1[1], guess1[2], r)
                  ELSE model(pep, Kd, G, r)
    /\ Af' = SeqMin([i \in DOMAIN out' |-> out'[i].FB.fl])
    /\ Ab' = SeqMax([i \in DOMAIN out' |-> out'[i].FB.fl])
    /\ evals' = evals + 1
    /\ UNCHANGED <<script, pc, data, pep, Aobs, SPOP, Puc, Kd1, Q, p1,
                   pcov, fit1, Kdround, note, err, p2, label>>

\* curve_fit evaluates the model function: first at guess1, then wherever
\* the unbounded Levenberg-Marquardt search goes
FitEval ==
    /\ script \in FitScripts /\ pc = "fitting" /\ evals < MaxEvals
    /\ \E Kd \in Kds, G \in Gs, r \in Rounding :
           out' = IF evals = 0 THEN model(pep, guess1[1], guess1[2], r)
                  ELSE model(pep, Kd, G, r)
    /\ evals' = evals + 1
    /\ UNCHANGED <<script, pc, data, pep, Aobs, Af, Ab, SPOP, Puc, Kd1, Q, p1,
                   pcov, fit1, Kdround, note, err, p2, label>>

\* the parameters of the last evaluation
LastIterate == <<out[1].Kd, out[1].G>>

\* curve_fit returns (popt, pcov)
FitConverged ==
    /\ script \in FitScripts /\ pc = "fitting" /\ evals > 0
    /\ p1' = LastIterate
    /\ pcov' = Some("finite")
    /\ pc' = "fitted"
    /\ UNCHANGED <<script, data, pep, Aobs, Af, Ab, SPOP, Puc, Kd1, Q, evals,
                   out, fit1, Kdround, note, err, p2, label>>

\* curve_fit on a singular Jacobian: it warns (OptimizeWarning), fills pcov
\* with inf and returns; the script goes on
FitSingular ==
    /\ script \in FitScripts /\ pc = "fitting" /\ evals > 0
    /\ p1' = LastIterate
    /\ pcov' = Some("inf")
    /\ pc' = "fitted"
    /\ UNCHANGED <<script, data, pep, Aobs, Af, Ab, SPOP, Puc, Kd1, Q, evals,
                   out, fit1, Kdround, note, err, p2, label>>

\* curve_fit out of evaluations: it raises RuntimeError("Optimal parameters
\* not found: ..."), which no statement of the script catches
FitRaise ==
    /\ script \in FitScripts /\ pc = "fitting" /\ evals = MaxEvals
    /\ err' = Some([type |-> "RuntimeError", params |-> None])
    /\ pc' = "aborted"
    /\ UNCHANGED <<script, data, pep, Aobs, Af, Ab, SPOP, Puc, Kd1, Q, evals,
                   out, p1, pcov, fit1, Kdround, note, p2, label>>

\* FinalCurve with the fit result overwritten while the curve is computed
FinalCurve_refit ==
    /\ script \in FitScripts /\ pc = "fitted"
    /\ \E r \in Rounding :
           fit1' = [i \in DOMAIN pep |-> model(pep, p1[1], p1[2], r)[i].val]
    /\ p1' = <<p1[1], p1[2] + 1>>
    /\ pc' = "curve"
    /\ UNCHANGED <<script, data, pep, Aobs, Af, Ab, SPOP, Puc, Kd1, Q, evals,
                   out, pcov, Kdround, note, err, p2, label>>

\* direct 71, competition 87: fit1 = np.array(kdfit(pep, p1[0], p1[1]))
FinalCurve ==
    /\ script \in FitScripts /\ pc = "fitted"
    /\ \E r \in Rounding :
           fit1' = [i \in DOMAIN pep |-> model(pep, p1[1], p1[2], r)[i].val]
    /\ pc' = "curve"
    /\ UNCHANGED <<script, data, pep, Aobs, Af, Ab, SPOP, Puc, Kd1, Q, evals,
                   out, p1, pcov, Kdround, note, err, p2, label>>

\* Python's round(x, 2): to the nearest hundredth, ties to the even one
round2(x) ==
    IF ~IsFinite(x) THEN NonFinite
    ELSE LET h   == (x.n * 100) \div x.d
             rem == (x.n * 100) - h * x.d
             k   == IF 2 * rem > x.d THEN h + 1
                    ELSE IF 2 * rem < x.d THEN h
                    ELSE IF h % 2 = 0 THEN h ELSE h + 1
         IN  Rat(k, 100)

\* direct 72, competition 88: Kdround = round(p1[0], 2)
RoundKd ==
    /\ script \in FitScripts /\ pc = "curve"
    /\ Kdround' = Some(round2(Whole(p1[1])))
    /\ pc' = "rounded"
    /\ UNCHANGED <<script, data, pep, Aobs, Af, Ab, SPOP, Puc, Kd1, Q, evals,
                   out, p1, pcov, fit1, note, err, p2, label>>

\* direct 75-89, competition 91-107: scatter the data, plot fit1, annotate
\* 'Kd = ' + str(Kdround) + ' uM'
Plot ==
    /\ script \in FitScripts /\ pc = "rounded"
    /\ note' = Some([text |-> IF script = "direct" THEN "Kd = " ELSE "Kd2 = ",
                     value |-> Kdround[1], unit |-> " uM"])
    /\ pc' = "done"
    /\ UNCHANGED <<script, data, pep, Aobs, Af, Ab, SPOP, Puc, Kd1, Q, evals,
                   out, p1, pcov, fit1, Kdround, err, p2, label>>

\* --------------------------------------------------------- cell_plotter.py
\* p-values in units of 1e-5.  The thresholds of lines 53, 56, 59 and 62:
P05 == 5000
P01 == 1000
P001 == 100
P0001 == 10

\* what stats.ttest_ind returns for p: a probability, here every threshold
\* with its two neighbours, 0 and 1, or nan (both samples constant and equal)
NaN == [nan |-> TRUE, v |-> 0]
Prob(v) == [nan |-> FALSE, v |-> v]
PValues ==
    {NaN} \cup
    {Prob(v) : v \in {0, 20 * P05} \cup
                     UNION {{t - 1, t, t + 1} : t \in {P05, P01, P001, P0001}}}

\* Python's comparisons: every comparison with nan is False
Gt(a, b) == ~a.nan /\ ~b.nan /\ a.v > b.v
Geq(a, b) == ~a.nan /\ ~b.nan /\ a.v >= b.v

\* lines 22-30: speck, nospeck = np.loadtxt(...); data = [speck, nospeck]
LoadCells ==
    /\ script = "cell" /\ pc = "start"
    /\ data' = <<"wt_speck.txt", "wt_nospeck.txt">>
    /\ pc' = "loaded"
    /\ UNCHANGED <<script, pep, Aobs, Af, Ab, SPOP, Puc, Kd1, Q, evals, out,
                   p1, pcov, fit1, Kdround, note, err, p2, label>>

\* line 34: t2, p2 = stats.ttest_ind(speck, nospeck)
TTest ==
    /\ script = "cell" /\ pc = "loaded"
    /\ \E p \in PValues : p2' = Some(p)
    /\ pc' = "tested"
    /\ UNCHANGED <<script, data, pep, Aobs, Af, Ab, SPOP, Puc, Kd1, Q, evals,
                   out, p1, pcov, fit1, Kdround, note, err, label>>

\* lines 53-66: the if / elif chain
annotation(p) ==
    IF Gt(p, Prob(P05)) THEN "no significance"
    ELSE IF Geq(Prob(P05), p) /\ Gt(p, Prob(P01)) THEN "p < 0.05"
    ELSE IF Geq(Prob(P01), p) /\ Gt(p, Prob(P001)) THEN "p < 0.01"
    ELSE IF Geq(Prob(P001), p) /\ Gt(p, Prob(P0001)) THEN "p < 0.001"
    ELSE "p < 0.0001"

Annotate ==
    /\ script = "cell" /\ pc = "tested"
    /\ label' = Some(annotation(p2[1]))
    /\ pc' = "annotated"
    /\ UNCHANGED <<script, data, pep, Aobs, Af, Ab, SPOP, Puc, Kd1, Q, evals,
                   out, p1, pcov, fit1, Kdround, note, err, p2>>

\* lines 69-79: the fixed labels and the scatter of the single cells
Scatter ==
    /\ script = "cell" /\ pc = "annotated"
    /\ pc' = "done"
    /\ UNCHANGED <<script, data, pep, Aobs, Af, Ab, SPOP, Puc, Kd1, Q, evals,
                   out, p1, pcov, fit1, Kdround, note, err, p2, label>>

\* ------------------------------------------------------ the specifications
Next ==
    \/ LoadData \/ BoundingSignals \/ Constants \/ StartFit \/ FitEval
    \/ FitConverged \/ FitSingular \/ FitRaise
    \/ FinalCurve \/ RoundKd \/ Plot
    \/ LoadCells \/ TTest \/ Annotate \/ Scatter

Spec == Init /\ [][Next]_vars

\* a script is one thread: while it has not ended, the interpreter goes on to
\* its next statement (or to one more evaluation inside curve_fit).  Every
\* step of Next changes <<pc, evals>>, and every state with Running has a
\* step of Next
Lines ==
    {"start", "loaded", "bounded", "configured", "fitting", "fitted", "curve",
     "rounded", "tested", "annotated", "done", "aborted"}

Running == pc \in Lines \ {"done", "aborted"}

Statement == Running /\ \E l \in Lines, n \in 0..MaxEvals : pc' = l /\ evals' = n

FairSpec == Spec /\ WF_<<pc, evals>>(Statement)

\* ------------------------------------------------------------- the claims
Evaluated(fn) == {i \in DOMAIN out : out[i].fn = fn}

InUnit(FB) == FB.fin /\ FB.ge0 /\ FB.le1

C2_CompetitiveFBInUnit ==
    \A i \in Evaluated("kd2fit") :
        (out[i].c >= 0 /\ SPOP > 0 /\ Puc > 0 /\ Kd1 > 0 /\ out[i].Kd > 0)
            => InUnit(out[i].FB)

\* C3: kd2fit(0, Kd2, G) equals kdfit(SPOP, Kd1, G) under the same Puc, Q, Af
\* and Ab, for every Kd2 > 0 and G.
C3_ZeroCompetitorIsDirect ==
    \A i \in Evaluated("kd2fit") :
        (out[i].c = 0 /\ out[i].Kd > 0 /\ Puc > 0)
            => out[i].val = kdfit(SPOP, Kd1, out[i].G).val

\* C4: whenever the argument of arccos is outside [-1, 1], kd2fit returns a
\* finite (penalty) value.
C4_OutOfDomainIsFinite ==
    \A i \in Evaluated("kd2fit") :
        out[i].th = "out" => IsFinite(out[i].val)

\* the signal G * (Q*FB*Ab + Af*(1 - FB)) / (1 - FB*(1 - Q)) of claim C8
BlendedSignal(FB, G) ==
    RatMul(Whole(G),
           RatDiv(RatAdd(RatMul(Whole(Q * Ab), FB),
                         RatMul(Whole(Af), RatSub(Whole(1), FB))),
                  RatSub(Whole(1), RatMul(FB, Whole(1 - Q)))))

\* C8: for every FB in [0, 1] the signal expression of kdfit and that of
\* kd2fit both equal G * (Q*FB*Ab + Af*(1 - FB)) / (1 - FB*(1 - Q)).
C8_SameSignalExpression ==
    \A i \in Evaluated("kdfitAobs") \cup Evaluated("kd2fitAobs") :
        out[i].val = BlendedSignal(Value(out[i].FB), out[i].G)

Configured == script \in FitScripts /\ pc \notin {"start", "loaded", "bounded"}
FitEntered == Configured /\ pc # "configured"

BoundsComputed == script \in FitScripts /\ pc \notin {"start", "loaded"}

BoundsKept == BoundsComputed =>
    Af' = Af /\ Ab' = Ab /\ Aobs' = Aobs /\ data' = data

ConstantsKept == Configured =>
    SPOP' = SPOP /\ Puc' = Puc /\ Kd1' = Kd1 /\ Q' = Q

\* C5: Af and Ab are the minimum and maximum of the signal column that is
\* passed to curve_fit, and once computed neither they nor the series nor the
\* experimental constants change: not in a model evaluation, not afterwards.
C5_BoundingSignalsFixed ==
    /\ [](BoundsComputed => /\ Aobs = Column(data, 2)
                             /\ Af = SeqMin(Aobs)
                             /\ Ab = SeqMax(Aobs))
    /\ [][BoundsKept]_vars
    /\ [][ConstantsKept]_vars

\* the optimizer has evaluated the model MaxEvals times on a series with
\* Af < Ab, and the final curve has been evaluated too
C5_Witness ==
    /\ script \in FitScripts /\ evals = MaxEvals /\ fit1 # None
    /\ Af # Unassigned /\ Af < Ab

\* C6: in the direct script a probe concentration of zero, or a negative
\* discriminant in kdfit, raises InvalidModelInput, and does so before
\* curve_fit is entered.
C6_InvalidInputFailsFast ==
    (FitEntered /\ script = "direct" /\
       (Puc = 0 \/ \E i \in DOMAIN out : ~out[i].FB.fin))
        => /\ err # None
           /\ err[1].type = "InvalidModelInput"
           /\ evals = 0

\* C7: when the optimizer does not converge (evaluations exhausted, singular
\* Jacobian) the script signals FitDidNotConverge with the last iterate, and
\* computes no fitted curve, no rounded Kd and no annotation.
C7_NoResultWithoutConvergence ==
    (script \in FitScripts /\ (pcov = Some("inf") \/ err # None))
        => /\ err # None
           /\ err[1].type = "FitDidNotConverge"
           /\ err[1].params # None
           /\ fit1 = None /\ Kdround = None /\ note = None

Step(from, to) == pc = from /\ pc' = to

InOrder == script \in FitScripts =>
    \/ Step("start", "loaded") \/ Step("loaded", "bounded")
    \/ Step("bounded", "configured") \/ Step("configured", "fitting")
    \/ Step("fitting", "fitting") \/ Step("fitting", "fitted")
    \/ Step("fitting", "aborted") \/ Step("fitted", "curve")
    \/ Step("curve", "rounded") \/ Step("rounded", "done")

ResultKept == p1 # None => p1' = p1 /\ pcov' = pcov

LabelIsTrue(p, l) ==
    /\ ~p.nan
    /\ l = "no significance" => p.v > P05
    /\ l = "p < 0.05" => p.v < P05 /\ p.v >= P01
    /\ l = "p < 0.01" => p.v < P01 /\ p.v >= P001
    /\ l = "p < 0.001" => p.v < P001 /\ p.v >= P0001
    /\ l = "p < 0.0001" => p.v < P0001

\* C10: the label annotated for p is one of the five and is true of p, the
\* thresholds themselves and an undefined p included.
C10_LabelIsTrue ==
    label # None =>
        /\ label[1] \in {"no significance", "p < 0.05", "p < 0.01",
                         "p < 0.001", "p < 0.0001"}
        /\ LabelIsTrue(p2[1], label[1])
====
